---- MODULE Spec2Model ----
(***************************************************************************)
(* Model of the graph algorithms engine of                                 *)
(* src/visualisation/algorithm_runner.py (class AlgorithmRunner).          *)
(*                                                                         *)
(* Numbers.  Edge weights and the sums of edge weights are fixed-point     *)
(* numbers counted in thousandths: the weight 1.0 is 1000, and             *)
(* round(x, 2) keeps a multiple of 10.  float('inf') is the value Inf,     *)
(* which absorbs additions and is larger than every finite sum the model   *)
(* can build.  BFS hop counts and colours are plain integers.              *)
(*                                                                         *)
(* Exceptions.  A call that raises (KeyError on a lookup of a vertex that  *)
(* is no key of a dict) ends with the result KeyError, a record that has   *)
(* the single field "raised"; a call that returns ends with the returned   *)
(* dict as a record.                                                       *)
(***************************************************************************)
EXTENDS Integers, Sequences, FiniteSets, TLC

VARIABLES graph_data, algorithm_name, pc, result, locals

vars == <<graph_data, algorithm_name, pc, result, locals>>

---------------------------------------------------------------------------
(* Bounds of the model *)

\* vertex identifiers are 0 .. MaxV-1, vertex lists have at most MaxV vertices
MaxV == 3
\* edge lists have at most MaxE edges
MaxE == 3
\* explicit edge weights are 4 * (0 .. MaxW) thousandths: 0.000, 0.004, ...
MaxW == 1

(* Program constants *)

\* float('inf')
Inf == 1000000
\* weight = 1.0 of an edge given as a pair, in thousandths
DefaultWeight == 1000
\* round(x, 2): one hundredth is ten thousandths
Hundredth == 10
\* the sentinel -1 of parent, nearest, farthest and coloring
NoVertex == -1

---------------------------------------------------------------------------
(* Values shared by the algorithms *)

Range(s) == {s[i] : i \in DOMAIN s}

\* x + y on floats with float('inf')
Plus(x, y) == IF x = Inf \/ y = Inf THEN Inf ELSE x + y

\* round(x, 2): the nearest multiple of a hundredth.  Python decides a tie by
\* the binary value of the float; the weights of the model are multiples of
\* 0.004 or 1.0, whose sums are never a tie, and the tie branch (to the even
\* multiple) is never taken
Round2(x) ==
    IF x = Inf THEN Inf
    ELSE LET q == x \div Hundredth
             r == x % Hundredth
         IN  IF 2 * r < Hundredth THEN q * Hundredth
             ELSE IF 2 * r > Hundredth THEN (q + 1) * Hundredth
             ELSE IF q % 2 = 0 THEN q * Hundredth
             ELSE (q + 1) * Hundredth

\* str(v)
Str(v) == ToString(v)

\* the weight an algorithm reads from an edge: edge[2] of a triple, 1.0 of a pair
EdgeWeight(edge) == IF Len(edge) = 3 THEN edge[3] ELSE DefaultWeight

\* the result of a call that raised KeyError
KeyError == [raised |-> "KeyError"]

\* EmptyGraphError with success left true
EmptyGraphErrorSucceeds == [error |-> "Empty graph", success |-> TRUE]

\* the result of the empty-graph early return
EmptyGraphError == [error |-> "Empty graph", success |-> FALSE]

\* s without its i-th element
RemoveAt(s, i) == SubSeq(s, 1, i - 1) \o SubSeq(s, i + 1, Len(s))

\* lexicographic order of tuples of numbers of equal length (Python's tuple <)
RECURSIVE TupleLess(_, _)
TupleLess(a, b) ==
    IF a = <<>> THEN FALSE
    ELSE IF a[1] < b[1] THEN TRUE
    ELSE IF a[1] > b[1] THEN FALSE
    ELSE TupleLess(Tail(a), Tail(b))

\* the index of the first smallest tuple of a non-empty sequence of tuples
MinIndex(s) ==
    CHOOSE i \in DOMAIN s :
        \A j \in DOMAIN s : ~TupleLess(s[j], s[i]) /\ (s[j] = s[i] => i <= j)

\* sorted(list): ascending, equal elements keeping their order
RECURSIVE SortTuples(_)
SortTuples(s) ==
    IF s = <<>> THEN <<>>
    ELSE LET i == MinIndex(s) IN <<s[i]>> \o SortTuples(RemoveAt(s, i))

\* sorted(component) of a list of integers
SortInts(s) ==
    LET t == SortTuples([i \in DOMAIN s |-> <<s[i]>>])
    IN  [i \in DOMAIN t |-> t[i][1]]

---------------------------------------------------------------------------
(* run_dijkstra *)

\* adj = {v: [] for v in vertices}, then adj[v1].append((v2, weight)) and
\* adj[v2].append((v1, weight)) for every edge from the i-th on
RECURSIVE AdjAppendWeighted(_, _, _)
AdjAppendWeighted(adj, edges, i) ==
    IF i > Len(edges) THEN [raised |-> FALSE, adj |-> adj]
    ELSE LET v1 == edges[i][1]
             v2 == edges[i][2]
             weight == EdgeWeight(edges[i])
         IN  IF v1 \notin DOMAIN adj \/ v2 \notin DOMAIN adj
             THEN [raised |-> TRUE, adj |-> adj]
             ELSE LET a1 == [adj EXCEPT ![v1] = Append(@, <<v2, weight>>)]
                      a2 == [a1 EXCEPT ![v2] = Append(@, <<v1, weight>>)]
                  IN  AdjAppendWeighted(a2, edges, i + 1)

AdjWeighted(vertices, edges) ==
    AdjAppendWeighted([v \in Range(vertices) |-> <<>>], edges, 1)

\* the start vertex run_dijkstra works from
DijkstraStart(vertices, start) ==
    IF vertices = <<>> \/ start \notin Range(vertices)
    THEN (IF vertices # <<>> THEN vertices[1] ELSE 0)
    ELSE start

\* DijkstraInit with every parent set to the start vertex
DijkstraInitParentStart(vertices, start) ==
    [distances |-> [v \in Range(vertices) \cup {start} |->
                        IF v = start THEN 0 ELSE Inf],
     parent    |-> [v \in Range(vertices) |-> IF v = start THEN NoVertex ELSE start],
     pq        |-> << <<0, start>> >>,
     visited   |-> {},
     raised    |-> FALSE]

\* distances, parent, pq and visited before the while loop
DijkstraInit(vertices, start) ==
    [distances |-> [v \in Range(vertices) \cup {start} |->
                        IF v = start THEN 0 ELSE Inf],
     parent    |-> [v \in Range(vertices) |-> NoVertex],
     pq        |-> << <<0, start>> >>,
     visited   |-> {},
     raised    |-> FALSE]

\* RelaxCondition with the edge weight compared instead of the path weight
RelaxConditionEdgeOnly(st, u, v, weight) ==
    v \notin st.visited /\ weight < st.distances[v]

\* the condition under which the for loop of the while body relaxes (v, weight)
RelaxCondition(st, u, v, weight) ==
    v \notin st.visited /\ Plus(st.distances[u], weight) < st.distances[v]

\* for v, weight in adj[u], from the i-th pair on
RECURSIVE Relax(_, _, _, _)
Relax(st, u, nbrs, i) ==
    IF i > Len(nbrs) THEN st
    ELSE LET v == nbrs[i][1]
             weight == nbrs[i][2]
         IN  IF RelaxCondition(st, u, v, weight)
             THEN LET d == Plus(st.distances[u], weight)
                  IN  Relax([st EXCEPT !.distances[v] = d,
                                       !.parent[v] = u,
                                       !.pq = Append(@, <<d, v>>)],
                            u, nbrs, i + 1)
             ELSE Relax(st, u, nbrs, i + 1)

\* one iteration of `while pq`: heappop, the visited test, the relaxations
DijkstraStep(adj, st) ==
    LET i == MinIndex(st.pq)
        u == st.pq[i][2]
        popped == [st EXCEPT !.pq = RemoveAt(st.pq, i)]
    IN  IF u \in st.visited THEN popped
        ELSE IF u \notin DOMAIN adj
             THEN [popped EXCEPT !.visited = @ \cup {u}, !.raised = TRUE]
             ELSE Relax([popped EXCEPT !.visited = @ \cup {u}], u, adj[u], 1)

RECURSIVE DijkstraLoop(_, _)
DijkstraLoop(adj, st) ==
    IF st.raised \/ st.pq = <<>> THEN st
    ELSE DijkstraLoop(adj, DijkstraStep(adj, st))

\* a dict {str(v): f[v] for v in vertices}
StrKeyed(vertices, f) ==
    [k \in {Str(v) : v \in Range(vertices)} |->
        f[CHOOSE v \in Range(vertices) : Str(v) = k]]

run_dijkstra(graph, start0) ==
    LET vertices == graph.vertices
        start == DijkstraStart(vertices, start0)
        built == AdjWeighted(vertices, graph.edges)
        st == DijkstraLoop(built.adj, DijkstraInit(vertices, start))
    IN  IF built.raised THEN KeyError
        ELSE IF st.raised THEN KeyError
        ELSE [algorithm |-> "Dijkstra",
              distances |-> StrKeyed(vertices, st.distances),
              parent    |-> StrKeyed(vertices, st.parent),
              start     |-> start,
              success   |-> TRUE]

---------------------------------------------------------------------------
(* run_tsp *)

\* adj = {v: {u: inf ...}}, then adj[v1][v2] = weight and adj[v2][v1] = weight
\* for every edge from the i-th on: a later edge of a pair overwrites an earlier
RECURSIVE MatrixAssign(_, _, _)
MatrixAssign(adj, edges, i) ==
    IF i > Len(edges) THEN [raised |-> FALSE, adj |-> adj]
    ELSE LET v1 == edges[i][1]
             v2 == edges[i][2]
             weight == EdgeWeight(edges[i])
         IN  IF v1 \notin DOMAIN adj \/ v2 \notin DOMAIN adj
             THEN [raised |-> TRUE, adj |-> adj]
             ELSE LET a1 == [adj EXCEPT ![v1][v2] = weight]
                      a2 == [a1 EXCEPT ![v2][v1] = weight]
                  IN  MatrixAssign(a2, edges, i + 1)

WeightMatrix(vertices, edges) ==
    MatrixAssign([v \in Range(vertices) |-> [u \in Range(vertices) |-> Inf]],
                 edges, 1)

\* tour, visited, current and total_distance before the while loop
TspInit(start) ==
    [tour |-> <<start>>, visited |-> {start}, current |-> start,
     total_distance |-> 0, stopped |-> FALSE]

\* NearerCondition with a vertex of equal weight taken as nearer
NearerConditionOrEqual(adj, st, v, min_dist) ==
    v \notin st.visited /\ adj[st.current][v] <= min_dist

\* the condition under which the scan takes v as the nearest vertex so far
NearerCondition(adj, st, v, min_dist) ==
    v \notin st.visited /\ adj[st.current][v] < min_dist

\* for v in vertices, from the i-th on: <<nearest, min_dist>>
RECURSIVE NearestScan(_, _, _, _, _, _)
NearestScan(vertices, adj, st, i, nearest, min_dist) ==
    IF i > Len(vertices) THEN <<nearest, min_dist>>
    ELSE IF NearerCondition(adj, st, vertices[i], min_dist)
         THEN NearestScan(vertices, adj, st, i + 1,
                          vertices[i], adj[st.current][vertices[i]])
         ELSE NearestScan(vertices, adj, st, i + 1, nearest, min_dist)

\* one iteration of `while len(visited) < len(vertices)`
TspStep(vertices, adj, st) ==
    LET found == NearestScan(vertices, adj, st, 1, NoVertex, Inf)
        nearest == found[1]
        min_dist == found[2]
    IN  IF nearest = NoVertex THEN [st EXCEPT !.stopped = TRUE]
        ELSE [st EXCEPT !.tour = Append(@, nearest),
                        !.visited = @ \cup {nearest},
                        !.total_distance = Plus(@, min_dist),
                        !.current = nearest]

TspRunning(vertices, st) ==
    ~st.stopped /\ Cardinality(st.visited) < Len(vertices)

RECURSIVE TspLoop(_, _, _)
TspLoop(vertices, adj, st) ==
    IF TspRunning(vertices, st) THEN TspLoop(vertices, adj, TspStep(vertices, adj, st))
    ELSE st

\* TspClose without the test that every vertex is in the tour
TspCloseAlways(vertices, adj, start, st) ==
    [st EXCEPT !.total_distance = Plus(@, adj[st.current][start]),
               !.tour = Append(@, start)]

\* the return to the start vertex after the loop
TspClose(vertices, adj, start, st) ==
    IF Len(st.tour) = Len(vertices)
    THEN [st EXCEPT !.total_distance = Plus(@, adj[st.current][start]),
                    !.tour = Append(@, start)]
    ELSE st

\* the dict run_tsp returns once the loop has ended in st
TspResult(vertices, adj, start, loop_end) ==
    LET st == TspClose(vertices, adj, start, loop_end)
    IN  [algorithm |-> "TSP (Nearest Neighbor)",
         tour |-> st.tour,
         total_distance |-> Round2(st.total_distance),
         vertices_visited |-> Len(st.tour) - 1,
         success |-> TRUE]

run_tsp(graph) ==
    LET vertices == graph.vertices
        start == vertices[1]
        built == WeightMatrix(vertices, graph.edges)
    IN  IF vertices = <<>> THEN EmptyGraphError
        ELSE IF built.raised THEN KeyError
        ELSE TspResult(vertices, built.adj, start,
                       TspLoop(vertices, built.adj, TspInit(start)))

---------------------------------------------------------------------------
(* run_mst *)

\* find without the recursion: the parent of x taken for the root
findOneHop(parent, x) == [parent |-> parent, root |-> parent[x]]

\* find(x) with path compression: the parent map afterwards and the root
RECURSIVE find(_, _)
find(parent, x) ==
    IF parent[x] # x
    THEN LET up == find(parent, parent[x])
         IN  [parent |-> [up.parent EXCEPT ![x] = up.root], root |-> up.root]
    ELSE [parent |-> parent, root |-> parent[x]]

\* union without the test that x and y are in one set already
unionNoCheck(uf, x, y) ==
    LET fx == find(uf.parent, x)
        fy == find(fx.parent, y)
    IN  [parent |-> [fy.parent EXCEPT ![fy.root] = fx.root],
         rank |-> uf.rank,
         returned |-> TRUE]

\* union(x, y) by rank on uf = [parent, rank]: the maps afterwards and the
\* value returned
union(uf, x, y) ==
    LET fx == find(uf.parent, x)
        fy == find(fx.parent, y)
        swap == uf.rank[fx.root] < uf.rank[fy.root]
        px == IF swap THEN fy.root ELSE fx.root
        py == IF swap THEN fx.root ELSE fy.root
    IN  IF fx.root = fy.root
        THEN [parent |-> fy.parent, rank |-> uf.rank, returned |-> FALSE]
        ELSE [parent |-> [fy.parent EXCEPT ![py] = px],
              rank |-> IF uf.rank[px] = uf.rank[py]
                       THEN [uf.rank EXCEPT ![px] = @ + 1]
                       ELSE uf.rank,
              returned |-> TRUE]

\* the key Kruskal sorts an edge by
SortKey(edge) == <<EdgeWeight(edge), edge[1], edge[2]>>

\* SortedEdges without the sort
SortedEdgesUnsorted(edges) == [i \in DOMAIN edges |-> SortKey(edges[i])]

\* sorted_edges: the (weight, v1, v2) tuples of the edges, sorted
SortedEdges(edges) == SortTuples([i \in DOMAIN edges |-> SortKey(edges[i])])

\* parent, rank, mst_edges and total_weight before the Kruskal loop
MstInit(vertices) ==
    [parent |-> [v \in Range(vertices) |-> v],
     rank |-> [v \in Range(vertices) |-> 0],
     mst_edges |-> <<>>,
     total_weight |-> 0,
     raised |-> FALSE]

\* one iteration of `for weight, u, v in sorted_edges`
KruskalStep(st, e) ==
    LET weight == e[1]
        u == e[2]
        v == e[3]
        un == union(st, u, v)
    IN  IF u \notin DOMAIN st.parent \/ v \notin DOMAIN st.parent
        THEN [st EXCEPT !.raised = TRUE]
        ELSE IF un.returned
             THEN [st EXCEPT !.parent = un.parent, !.rank = un.rank,
                             !.mst_edges = Append(@, <<u, v, weight>>),
                             !.total_weight = Plus(@, weight)]
             ELSE [st EXCEPT !.parent = un.parent]

RECURSIVE KruskalLoop(_, _, _)
KruskalLoop(st, sorted_edges, i) ==
    IF st.raised \/ i > Len(sorted_edges) THEN st
    ELSE KruskalLoop(KruskalStep(st, sorted_edges[i]), sorted_edges, i + 1)

\* MstIsConnected with the vertex count not reduced by one
MstIsConnectedOffByOne(vertices, mst_edges) == Len(mst_edges) = Len(vertices)

\* the is_connected field of run_mst
MstIsConnected(vertices, mst_edges) == Len(mst_edges) = Len(vertices) - 1

\* the dict run_mst returns once the Kruskal loop has ended in st
MstResult(vertices, st) ==
    [algorithm |-> "MST (Kruskal)",
     mst_edges |-> st.mst_edges,
     total_weight |-> Round2(st.total_weight),
     num_edges |-> Len(st.mst_edges),
     is_connected |-> MstIsConnected(vertices, st.mst_edges),
     success |-> TRUE]

run_mst(graph) ==
    LET vertices == graph.vertices
        st == KruskalLoop(MstInit(vertices), SortedEdges(graph.edges), 1)
    IN  IF vertices = <<>> THEN EmptyGraphError
        ELSE IF st.raised THEN KeyError
        ELSE MstResult(vertices, st)

---------------------------------------------------------------------------
(* Adjacency without weights: run_connectivity, run_coloring, run_hotel_optimization *)

\* adj = {v: [] for v in vertices}, then adj[v1].append(v2) and adj[v2].append(v1)
\* for every edge from the i-th on
RECURSIVE AdjAppend(_, _, _)
AdjAppend(adj, edges, i) ==
    IF i > Len(edges) THEN [raised |-> FALSE, adj |-> adj]
    ELSE LET v1 == edges[i][1]
             v2 == edges[i][2]
         IN  IF v1 \notin DOMAIN adj \/ v2 \notin DOMAIN adj
             THEN [raised |-> TRUE, adj |-> adj]
             ELSE LET a1 == [adj EXCEPT ![v1] = Append(@, v2)]
                      a2 == [a1 EXCEPT ![v2] = Append(@, v1)]
                  IN  AdjAppend(a2, edges, i + 1)

AdjLists(vertices, edges) ==
    AdjAppend([v \in Range(vertices) |-> <<>>], edges, 1)

\* adj = {v: set() for v in vertices}, then adj[v1].add(v2) and adj[v2].add(v1)
RECURSIVE AdjAdd(_, _, _)
AdjAdd(adj, edges, i) ==
    IF i > Len(edges) THEN [raised |-> FALSE, adj |-> adj]
    ELSE LET v1 == edges[i][1]
             v2 == edges[i][2]
         IN  IF v1 \notin DOMAIN adj \/ v2 \notin DOMAIN adj
             THEN [raised |-> TRUE, adj |-> adj]
             ELSE LET a1 == [adj EXCEPT ![v1] = @ \cup {v2}]
                      a2 == [a1 EXCEPT ![v2] = @ \cup {v1}]
                  IN  AdjAdd(a2, edges, i + 1)

AdjSets(vertices, edges) ==
    AdjAdd([v \in Range(vertices) |-> {}], edges, 1)

---------------------------------------------------------------------------
(* run_connectivity *)

\* dfs(v, component) on st = [visited, component]: DfsNeighbours is its for
\* loop over adj[v] from the i-th neighbour on
RECURSIVE dfs(_, _, _)
RECURSIVE DfsNeighbours(_, _, _, _)
dfs(adj, v, st) ==
    DfsNeighbours(adj, v, 1,
                  [visited |-> st.visited \cup {v},
                   component |-> Append(st.component, v)])

DfsNeighbours(adj, v, i, st) ==
    IF i > Len(adj[v]) THEN st
    ELSE IF adj[v][i] \notin st.visited
         THEN DfsNeighbours(adj, v, i + 1, dfs(adj, adj[v][i], st))
         ELSE DfsNeighbours(adj, v, i + 1, st)

\* ComponentOf with the component left in the order of discovery
ComponentOfUnsorted(adj, v, visited) ==
    LET st == dfs(adj, v, [visited |-> visited, component |-> <<>>])
    IN  [visited |-> st.visited, component |-> st.component]

\* the component list appended for a start vertex v
ComponentOf(adj, v, visited) ==
    LET st == dfs(adj, v, [visited |-> visited, component |-> <<>>])
    IN  [visited |-> st.visited, component |-> SortInts(st.component)]

\* for v in vertices, from the i-th on: the components found
RECURSIVE ComponentsLoop(_, _, _, _, _)
ComponentsLoop(vertices, adj, i, visited, components) ==
    IF i > Len(vertices) THEN components
    ELSE IF vertices[i] \notin visited
         THEN LET c == ComponentOf(adj, vertices[i], visited)
              IN  ComponentsLoop(vertices, adj, i + 1, c.visited,
                                 Append(components, c.component))
         ELSE ComponentsLoop(vertices, adj, i + 1, visited, components)

\* max(len(c) for c in components) if components else 0
LargestSize(components) ==
    IF components = <<>> THEN 0
    ELSE LET i == CHOOSE i \in DOMAIN components :
                      \A j \in DOMAIN components :
                          Len(components[j]) <= Len(components[i])
         IN  Len(components[i])

run_connectivity(graph) ==
    LET vertices == graph.vertices
        built == AdjLists(vertices, graph.edges)
        components == ComponentsLoop(vertices, built.adj, 1, {}, <<>>)
    IN  IF vertices = <<>> THEN EmptyGraphError
        ELSE IF built.raised THEN KeyError
        ELSE [algorithm |-> "Connectivity (DFS)",
              components |-> components,
              num_components |-> Len(components),
              is_connected |-> (Len(components) = 1),
              largest_component_size |-> LargestSize(components),
              success |-> TRUE]

---------------------------------------------------------------------------
(* run_coloring *)

\* NeighborColors with the test for an uncoloured neighbour inverted
NeighborColorsInverted(adj, coloring, v) ==
    {coloring[u] : u \in {w \in adj[v] : coloring[w] = NoVertex}}

\* {coloring[u] for u in adj[v] if coloring[u] != -1}
NeighborColors(adj, coloring, v) ==
    {coloring[u] : u \in {w \in adj[v] : coloring[w] # NoVertex}}

\* color = 0; while color in neighbor_colors: color += 1
RECURSIVE FirstFreeFrom(_, _)
FirstFreeFrom(color, neighbor_colors) ==
    IF color \in neighbor_colors THEN FirstFreeFrom(color + 1, neighbor_colors)
    ELSE color

\* the colour the greedy loop gives v
ColorFor(adj, coloring, v) == FirstFreeFrom(0, NeighborColors(adj, coloring, v))

\* for v in vertices, from the i-th on
RECURSIVE ColoringLoop(_, _, _, _)
ColoringLoop(vertices, adj, i, coloring) ==
    IF i > Len(vertices) THEN coloring
    ELSE ColoringLoop(vertices, adj, i + 1,
                      [coloring EXCEPT ![vertices[i]] =
                           ColorFor(adj, coloring, vertices[i])])

\* max(coloring.values()) + 1 if coloring else 0
ChromaticNumber(coloring) ==
    IF DOMAIN coloring = {} THEN 0
    ELSE (CHOOSE c \in Range(coloring) : \A d \in Range(coloring) : d <= c) + 1

run_coloring(graph) ==
    LET vertices == graph.vertices
        built == AdjSets(vertices, graph.edges)
        coloring == ColoringLoop(vertices, built.adj, 1,
                                 [v \in Range(vertices) |-> NoVertex])
        chromatic_number == ChromaticNumber(coloring)
    IN  IF vertices = <<>> THEN EmptyGraphError
        ELSE IF built.raised THEN KeyError
        ELSE [algorithm |-> "Graph Coloring (Greedy)",
              coloring |-> coloring,
              chromatic_number |-> chromatic_number,
              colors_used |-> [i \in 1..chromatic_number |-> i - 1],
              success |-> TRUE]

---------------------------------------------------------------------------
(* run_hotel_optimization *)

\* for v in adj[u], from the i-th neighbour on, inside the while loop of
\* bfs_distance: whether end was met, and visited and q afterwards
RECURSIVE BfsScan(_, _, _, _, _, _, _)
BfsScan(adj, end, u, dist, i, visited, q) ==
    IF i > Len(adj[u]) THEN [found |-> FALSE, visited |-> visited, q |-> q]
    ELSE LET v == adj[u][i]
         IN  IF v = end THEN [found |-> TRUE, visited |-> visited, q |-> q]
             ELSE IF v \notin visited
                  THEN BfsScan(adj, end, u, dist, i + 1, visited \cup {v},
                               Append(q, <<v, dist + 1>>))
                  ELSE BfsScan(adj, end, u, dist, i + 1, visited, q)

\* while q: u, dist = q.popleft() ...; return float('inf')
RECURSIVE BfsLoop(_, _, _, _)
BfsLoop(adj, end, visited, q) ==
    IF q = <<>> THEN Inf
    ELSE LET u == Head(q)[1]
             dist == Head(q)[2]
             sc == BfsScan(adj, end, u, dist, 1, visited, Tail(q))
         IN  IF sc.found THEN dist + 1
             ELSE BfsLoop(adj, end, sc.visited, sc.q)

bfs_distance(adj, start, end) ==
    IF start = end THEN 0
    ELSE BfsLoop(adj, end, {start}, << <<start, 0>> >>)

\* k = max(1, len(vertices) // 3 + 1)
HotelK(vertices) ==
    LET n == (Len(vertices) \div 3) + 1 IN IF n > 1 THEN n ELSE 1

\* range(min(k - 1, len(vertices) - 1)): the number of rounds that add a center
HotelRounds(vertices) ==
    LET a == HotelK(vertices) - 1
        b == Len(vertices) - 1
    IN  IF a < b THEN a ELSE b

\* min(bfs_distance(v, c) for c in centers)
MinCenterDistance(adj, v, centers) ==
    LET ds == {bfs_distance(adj, v, c) : c \in Range(centers)}
    IN  CHOOSE d \in ds : \A e \in ds : d <= e

\* FartherCondition with a vertex of equal distance taken as farther
FartherConditionOrEqual(min_dist, max_min_dist) == min_dist >= max_min_dist

\* the condition under which the scan takes a vertex as the farthest so far
FartherCondition(min_dist, max_min_dist) == min_dist > max_min_dist

\* for v in vertices, from the i-th on, in one round: farthest
RECURSIVE FarthestScan(_, _, _, _, _, _)
FarthestScan(vertices, adj, centers, i, farthest, max_min_dist) ==
    IF i > Len(vertices) THEN farthest
    ELSE LET v == vertices[i]
             min_dist == MinCenterDistance(adj, v, centers)
         IN  IF v \in Range(centers)
             THEN FarthestScan(vertices, adj, centers, i + 1, farthest, max_min_dist)
             ELSE IF FartherCondition(min_dist, max_min_dist)
                  THEN FarthestScan(vertices, adj, centers, i + 1, v, min_dist)
                  ELSE FarthestScan(vertices, adj, centers, i + 1, farthest,
                                    max_min_dist)

\* the rounds of the center selection that are left
RECURSIVE CentersLoop(_, _, _, _)
CentersLoop(vertices, adj, centers, rounds) ==
    IF rounds <= 0 THEN centers
    ELSE LET farthest == FarthestScan(vertices, adj, centers, 1, NoVertex, -1)
         IN  CentersLoop(vertices, adj,
                         IF farthest # NoVertex THEN Append(centers, farthest)
                         ELSE centers,
                         rounds - 1)

\* NearestCenter with a tie going to the last center of least key
NearestCenterLast(adj, v, centers) ==
    LET key(i) == bfs_distance(adj, v, centers[i])
        i == CHOOSE i \in DOMAIN centers :
                 \A j \in DOMAIN centers :
                     key(i) <= key(j) /\ (key(j) = key(i) => j <= i)
    IN  centers[i]

\* min(centers, key=lambda c: bfs_distance(v, c)): the first center of least key
NearestCenter(adj, v, centers) ==
    LET key(i) == bfs_distance(adj, v, centers[i])
        i == CHOOSE i \in DOMAIN centers :
                 \A j \in DOMAIN centers :
                     key(i) <= key(j) /\ (key(j) = key(i) => i <= j)
    IN  centers[i]

\* for v in vertices, from the i-th on: assignment and max_dist
RECURSIVE AssignLoop(_, _, _, _, _)
AssignLoop(vertices, adj, centers, i, st) ==
    IF i > Len(vertices) THEN st
    ELSE LET v == vertices[i]
             nearest == NearestCenter(adj, v, centers)
             dist == bfs_distance(adj, v, nearest)
         IN  AssignLoop(vertices, adj, centers, i + 1,
                        [assignment |-> [st.assignment EXCEPT ![v] = nearest],
                         max_dist |-> IF dist > st.max_dist THEN dist
                                      ELSE st.max_dist])

run_hotel_optimization(graph) ==
    LET vertices == graph.vertices
        built == AdjLists(vertices, graph.edges)
        centers == CentersLoop(vertices, built.adj, <<vertices[1]>>,
                               HotelRounds(vertices))
        st == AssignLoop(vertices, built.adj, centers, 1,
                         [assignment |-> [v \in Range(vertices) |-> NoVertex],
                          max_dist |-> 0])
    IN  IF vertices = <<>> THEN EmptyGraphError
        ELSE IF built.raised THEN KeyError
        ELSE [algorithm |-> "Hotel Optimization (K-Centers)",
              centers |-> centers,
              num_centers |-> Len(centers),
              assignment |-> st.assignment,
              max_distance |-> st.max_dist,
              success |-> TRUE]

---------------------------------------------------------------------------
(* run_algorithm *)

\* UnknownAlgorithm with a success field
UnknownAlgorithmFailed(name) ==
    [error |-> "Unknown algorithm: " \o name, success |-> FALSE]

\* the result of the else branch of run_algorithm
UnknownAlgorithm(name) == [error |-> "Unknown algorithm: " \o name]

\* a success result without its algorithm field
WithoutAlgorithm(r) ==
    IF "algorithm" \in DOMAIN r
    THEN [f \in DOMAIN r \ {"algorithm"} |-> r[f]]
    ELSE r

\* run_algorithm returning the result without the name of the algorithm
run_algorithm_unnamed(name, graph) ==
    IF name = "dijkstra" THEN WithoutAlgorithm(run_dijkstra(graph, 0))
    ELSE IF name = "tsp" THEN WithoutAlgorithm(run_tsp(graph))
    ELSE IF name = "mst" THEN WithoutAlgorithm(run_mst(graph))
    ELSE IF name = "connectivity" THEN WithoutAlgorithm(run_connectivity(graph))
    ELSE IF name = "coloring" THEN WithoutAlgorithm(run_coloring(graph))
    ELSE IF name = "hotel" THEN WithoutAlgorithm(run_hotel_optimization(graph))
    ELSE UnknownAlgorithm(name)

run_algorithm(name, graph) ==
    IF name = "dijkstra" THEN run_dijkstra(graph, 0)
    ELSE IF name = "tsp" THEN run_tsp(graph)
    ELSE IF name = "mst" THEN run_mst(graph)
    ELSE IF name = "connectivity" THEN run_connectivity(graph)
    ELSE IF name = "coloring" THEN run_coloring(graph)
    ELSE IF name = "hotel" THEN run_hotel_optimization(graph)
    ELSE UnknownAlgorithm(name)

---------------------------------------------------------------------------
(* The graphs handed to the engine *)

VertexIds == 0 .. (MaxV - 1)

\* the weights of edges given as triples, in thousandths
Weights == {4 * i : i \in 0 .. MaxW}

\* vertex lists: the sequences of distinct vertex identifiers
VertexLists ==
    {s \in UNION {[1 .. n -> VertexIds] : n \in 0 .. MaxV} :
        \A i, j \in DOMAIN s : s[i] = s[j] => i = j}

\* edges as (u, v, weight) or (u, v), u <= v, between any two identifiers:
\* an edge may name a vertex that is not in the vertex list
EdgeChoices ==
    {<<u, v, w>> : u \in VertexIds, v \in VertexIds, w \in Weights}
        \cup {<<u, v>> : u \in VertexIds, v \in VertexIds}

EdgeLists ==
    UNION {[1 .. n -> {e \in EdgeChoices : e[1] <= e[2]}] : n \in 0 .. MaxE}

\* the six names run_algorithm knows
AlgorithmNames == {"dijkstra", "tsp", "mst", "connectivity", "coloring", "hotel"}

\* the names a caller passes that are none of the six algorithms
UnknownNames == {"", "prim", "Dijkstra"}

\* the value of result while no call has returned
NoResult == [none |-> TRUE]

\* the value of locals while no method is inside one of its loops
NoLocals == [none |-> TRUE]

---------------------------------------------------------------------------
(* The engine as a state machine: a caller holds a graph and calls
   run_algorithm on it *)

Init ==
    /\ graph_data \in [vertices : VertexLists, edges : EdgeLists]
    /\ algorithm_name = ""
    /\ pc = "idle"
    /\ result = NoResult
    /\ locals = NoLocals

\* GraphAfterCall with run_mst putting its sorted (weight, v1, v2) tuples back
\* into the edge list it was given
GraphAfterCallSortedInPlace(name, graph) ==
    IF name = "mst" /\ graph.vertices # <<>>
    THEN [graph EXCEPT !.edges = SortedEdges(@)]
    ELSE graph

\* the caller's graph_data once run_algorithm(name, graph_data) has returned or
\* raised: every algorithm only reads graph_data['vertices'] and
\* graph_data['edges'] and writes to containers it built itself
GraphAfterCall(name, graph) == graph

\* run_algorithm(name, graph_data): the whole call
Call(name) ==
    /\ pc = "idle"
    /\ algorithm_name' = name
    /\ result' = run_algorithm(name, graph_data)
    /\ pc' = "done"
    /\ graph_data' = GraphAfterCall(name, graph_data)
    /\ UNCHANGED locals

CallDijkstra == Call("dijkstra")
CallTsp == Call("tsp")
CallMst == Call("mst")
CallConnectivity == Call("connectivity")
CallColoring == Call("coloring")
CallHotel == Call("hotel")
CallUnknown == \E name \in UnknownNames : Call(name)

Next ==
    \/ CallDijkstra
    \/ CallTsp
    \/ CallMst
    \/ CallConnectivity
    \/ CallColoring
    \/ CallHotel
    \/ CallUnknown

Spec == Init /\ [][Next]_vars

---------------------------------------------------------------------------
(* A session of a caller that keeps its graph and the last result, calls
   run_algorithm again and again, and now and then takes a new graph, as
   GraphVisualizerApp does *)

\* generate_path_graph(num_vertices) with the default edge_weight 1.0; the
\* keys num_vertices and num_edges, which the engine never reads, are left out
generate_path_graph(num_vertices) ==
    [vertices |-> [i \in 1 .. num_vertices |-> i - 1],
     edges |-> [i \in 1 .. (num_vertices - 1) |-> <<i - 1, i, DefaultWeight>>]]

\* the graphs a session starts from: those of at most MaxE - 1 edges
SessionInit ==
    /\ graph_data \in [vertices : VertexLists,
                        edges : {e \in EdgeLists : Len(e) < MaxE}]
    /\ algorithm_name = ""
    /\ pc = "idle"
    /\ result = NoResult
    /\ locals = NoLocals

\* on_run_algorithm(name): run_algorithm on the graph the caller holds, after
\* whatever calls came before; the caller keeps the name and the result
SessionCall(name) ==
    /\ algorithm_name' = name
    /\ result' = run_algorithm(name, graph_data)
    /\ pc' = "done"
    /\ graph_data' = GraphAfterCall(name, graph_data)
    /\ UNCHANGED locals

SessionCallKnown == \E name \in AlgorithmNames : SessionCall(name)

SessionCallUnknown == \E name \in UnknownNames : SessionCall(name)

\* on_generate_graph: the caller takes a new graph, for which it has no result
SessionGenerate ==
    /\ \E n \in 1 .. MaxV : graph_data' = generate_path_graph(n)
    /\ graph_data' # graph_data
    /\ algorithm_name' = ""
    /\ result' = NoResult
    /\ pc' = "idle"
    /\ UNCHANGED locals

SessionNext == SessionCallKnown \/ SessionCallUnknown \/ SessionGenerate

Session == SessionInit /\ [][SessionNext]_vars

---------------------------------------------------------------------------
(* run_hotel_optimization on graphs large enough for several rounds of the
   center selection: up to MaxHotelV vertices and any set of edges between
   distinct vertices, listed in a fixed order.  The vertices are listed
   ascending or descending, the largest graphs descending only, where the
   order of the vertex list is not the order of the identifiers *)

\* the largest number of vertices of these graphs
MaxHotelV == 6

\* the pairs (u, v), u < v, of the vertices 0 .. n-1, in lexicographic order
RECURSIVE PairsFrom(_, _, _)
PairsFrom(u, v, n) ==
    IF u >= n - 1 THEN <<>>
    ELSE IF v >= n THEN PairsFrom(u + 1, u + 2, n)
    ELSE << <<u, v>> >> \o PairsFrom(u, v + 1, n)

\* the pairs of a list of pairs whose place is in chosen
RECURSIVE ChosenPairs(_, _, _)
ChosenPairs(pairs, chosen, i) ==
    IF i > Len(pairs) THEN <<>>
    ELSE (IF i \in chosen THEN <<pairs[i]>> ELSE <<>>)
             \o ChosenPairs(pairs, chosen, i + 1)

\* the graph of n vertices with the chosen pairs as its edges
HotelGraph(n, descending, chosen) ==
    [vertices |-> IF descending THEN [i \in 1 .. n |-> n - i]
                  ELSE [i \in 1 .. n |-> i - 1],
     edges |-> ChosenPairs(PairsFrom(0, 1, n), chosen, 1)]

HotelInit ==
    /\ \E n \in 1 .. MaxHotelV :
           \E chosen \in SUBSET (1 .. ((n * (n - 1)) \div 2)) :
               \E descending \in (IF n < MaxHotelV THEN BOOLEAN ELSE {TRUE}) :
                   graph_data = HotelGraph(n, descending, chosen)
    /\ algorithm_name = ""
    /\ pc = "idle"
    /\ result = NoResult
    /\ locals = NoLocals

HotelRuns == HotelInit /\ [][CallHotel]_vars

---------------------------------------------------------------------------
(* run_tsp step by step: a state for every iteration of its while loop, with
   the weight matrix and the loop's variables in locals *)

\* run_tsp from its entry to the first test of the while loop
TspBegin ==
    /\ pc = "idle"
    /\ algorithm_name' = "tsp"
    /\ LET vertices == graph_data.vertices
           built == WeightMatrix(vertices, graph_data.edges)
       IN  IF vertices = <<>>
           THEN result' = EmptyGraphError /\ pc' = "done" /\ UNCHANGED locals
           ELSE IF built.raised
                THEN result' = KeyError /\ pc' = "done" /\ UNCHANGED locals
                ELSE /\ locals' = [adj |-> built.adj, st |-> TspInit(vertices[1])]
                     /\ pc' = "tsp_loop"
                     /\ UNCHANGED result
    /\ UNCHANGED graph_data

\* one iteration of the while loop, the one that ends in break included
TspIterate ==
    /\ pc = "tsp_loop"
    /\ TspRunning(graph_data.vertices, locals.st)
    /\ locals' = [locals EXCEPT !.st = TspStep(graph_data.vertices, locals.adj, @)]
    /\ UNCHANGED <<graph_data, algorithm_name, pc, result>>

\* the loop has ended: the return to start and the returned dict
TspReturn ==
    /\ pc = "tsp_loop"
    /\ ~TspRunning(graph_data.vertices, locals.st)
    /\ result' = TspResult(graph_data.vertices, locals.adj,
                           graph_data.vertices[1], locals.st)
    /\ pc' = "done"
    /\ locals' = NoLocals
    /\ UNCHANGED <<graph_data, algorithm_name>>

TspNext == TspBegin \/ TspIterate \/ TspReturn

TspSteps == Init /\ [][TspNext]_vars

---------------------------------------------------------------------------
(* run_mst step by step: a state for every iteration of the Kruskal loop, with
   sorted_edges, the place i of the next edge in it and the union-find maps,
   mst_edges and total_weight in locals *)

\* run_mst from its entry to the first iteration of the Kruskal loop
MstBegin ==
    /\ pc = "idle"
    /\ algorithm_name' = "mst"
    /\ IF graph_data.vertices = <<>>
       THEN result' = EmptyGraphError /\ pc' = "done" /\ UNCHANGED locals
       ELSE /\ locals' = [sorted_edges |-> SortedEdges(graph_data.edges),
                          i |-> 1,
                          st |-> MstInit(graph_data.vertices)]
            /\ pc' = "mst_loop"
            /\ UNCHANGED result
    /\ UNCHANGED graph_data

\* one iteration of `for weight, u, v in sorted_edges`, which raises when an
\* endpoint is no key of parent
MstIterate ==
    /\ pc = "mst_loop"
    /\ locals.i <= Len(locals.sorted_edges)
    /\ LET st == KruskalStep(locals.st, locals.sorted_edges[locals.i])
       IN  IF st.raised
           THEN result' = KeyError /\ pc' = "done" /\ locals' = NoLocals
           ELSE /\ locals' = [locals EXCEPT !.st = st, !.i = @ + 1]
                /\ UNCHANGED <<pc, result>>
    /\ UNCHANGED <<graph_data, algorithm_name>>

\* the loop has ended: the returned dict
MstReturn ==
    /\ pc = "mst_loop"
    /\ locals.i > Len(locals.sorted_edges)
    /\ result' = MstResult(graph_data.vertices, locals.st)
    /\ pc' = "done"
    /\ locals' = NoLocals
    /\ UNCHANGED <<graph_data, algorithm_name>>

MstNext == MstBegin \/ MstIterate \/ MstReturn

MstSteps == Init /\ [][MstNext]_vars

---------------------------------------------------------------------------
(* The union-find of run_mst under any sequence of union(x, y) calls: graphs
   of up to MaxUfV vertices whose edges, up to MaxUfE of them, join any x to
   any other y and have strictly ascending weights, so that the Kruskal loop
   calls union on them in the order in which they are listed *)

\* the largest number of vertices of these graphs
MaxUfV == 4

\* the largest number of edges of these graphs
MaxUfE == 4

\* the graph of n vertices whose i-th edge joins ends[i][1] to ends[i][2] with
\* the weight 0.004 * i
UnionSequenceGraph(n, ends) ==
    [vertices |-> [i \in 1 .. n |-> i - 1],
     edges |-> [i \in DOMAIN ends |-> <<ends[i][1], ends[i][2], 4 * i>>]]

UnionFindInit ==
    /\ \E n \in 1 .. MaxUfV :
           \E m \in 0 .. MaxUfE :
               \E ends \in [1 .. m -> {e \in (0 .. (n - 1)) \X (0 .. (n - 1)) :
                                           e[1] # e[2]}] :
                   graph_data = UnionSequenceGraph(n, ends)
    /\ algorithm_name = ""
    /\ pc = "idle"
    /\ result = NoResult
    /\ locals = NoLocals

UnionFindSteps == UnionFindInit /\ [][MstNext]_vars

---------------------------------------------------------------------------
(* Reference notions of graph theory, stated on the graph itself and not on
   what the algorithms compute *)

Vertices == Range(graph_data.vertices)

NonEmptyGraph == graph_data.vertices # <<>>

\* every edge joins two vertices of the vertex list
WellFormed ==
    \A i \in DOMAIN graph_data.edges :
        graph_data.edges[i][1] \in Vertices /\ graph_data.edges[i][2] \in Vertices

NonNegativeWeights ==
    \A i \in DOMAIN graph_data.edges : EdgeWeight(graph_data.edges[i]) >= 0

NoSelfLoops ==
    \A i \in DOMAIN graph_data.edges :
        graph_data.edges[i][1] # graph_data.edges[i][2]

\* the weights of the edges that join u and v, in either direction
EdgeWeightsBetween(u, v) ==
    {EdgeWeight(graph_data.edges[i]) :
        i \in {j \in DOMAIN graph_data.edges :
                  {graph_data.edges[j][1], graph_data.edges[j][2]} = {u, v}}}

Adjacent(u, v) == EdgeWeightsBetween(u, v) # {}

SetMin(S) == CHOOSE x \in S : \A y \in S : x <= y

SetMax(S) == CHOOSE x \in S : \A y \in S : y <= x

\* the vertices joined to a vertex of S by a path
RECURSIVE ReachableFrom(_)
ReachableFrom(S) ==
    LET T == S \cup {v \in Vertices : \E u \in S : Adjacent(u, v)}
    IN  IF T = S THEN S ELSE ReachableFrom(T)

\* the connected components, as sets of vertices
ReferenceComponents == {ReachableFrom({v}) : v \in Vertices}

GraphConnected == NonEmptyGraph /\ Cardinality(ReferenceComponents) = 1

\* the paths from s to t that repeat no vertex
SimplePaths(s, t) ==
    {p \in UNION {[1 .. n -> Vertices] : n \in 1 .. Cardinality(Vertices)} :
        /\ p[1] = s
        /\ p[Len(p)] = t
        /\ \A i, j \in DOMAIN p : p[i] = p[j] => i = j}

\* the weight of a path that takes the lightest edge at every hop
RECURSIVE PathWeight(_)
PathWeight(p) ==
    IF Len(p) <= 1 THEN 0
    ELSE Plus(IF Adjacent(p[1], p[2]) THEN SetMin(EdgeWeightsBetween(p[1], p[2]))
              ELSE Inf,
              PathWeight(Tail(p)))

\* the true shortest-path weight from s to t (weights are non-negative)
ShortestWeight(s, t) == SetMin({PathWeight(p) : p \in SimplePaths(s, t)})

\* the sums of edge weights along the parent pointers of a Dijkstra result
\* from v back to the vertex whose parent is -1, which has to be start; at
\* most fuel hops
RECURSIVE ParentPathWeights(_, _)
ParentPathWeights(v, fuel) ==
    LET p == result.parent[Str(v)]
    IN  IF p = NoVertex THEN (IF v = result.start THEN {0} ELSE {})
        ELSE IF fuel = 0 \/ p \notin Vertices THEN {}
        ELSE {Plus(w, d) : w \in EdgeWeightsBetween(p, v),
                           d \in ParentPathWeights(p, fuel - 1)}

\* the vertices joined to a vertex of S by a path of edges whose index is in T
RECURSIVE ReachableVia(_, _)
ReachableVia(T, S) ==
    LET N == S \cup {v \in Vertices :
                        \E i \in T : \E u \in S :
                            {graph_data.edges[i][1], graph_data.edges[i][2]} = {u, v}}
    IN  IF N = S THEN S ELSE ReachableVia(T, N)

\* the sets of edges (by index) that are spanning trees
SpanningTrees ==
    {T \in SUBSET (DOMAIN graph_data.edges) :
        /\ Cardinality(T) = Cardinality(Vertices) - 1
        /\ ReachableVia(T, {graph_data.vertices[1]}) = Vertices}

RECURSIVE SumWeights(_)
SumWeights(T) ==
    IF T = {} THEN 0
    ELSE LET i == CHOOSE i \in T : TRUE
         IN  EdgeWeight(graph_data.edges[i]) + SumWeights(T \ {i})

\* the weight of a minimum spanning tree of a connected graph
MinSpanningWeight == SetMin({SumWeights(T) : T \in SpanningTrees})

\* sum(si - 1) over the connected components
RECURSIVE SumSizesLessOne(_)
SumSizesLessOne(components) ==
    IF components = {} THEN 0
    ELSE LET c == CHOOSE c \in components : TRUE
         IN  (Cardinality(c) - 1) + SumSizesLessOne(components \ {c})

\* the least number of edges of a path from a vertex of S to t, S being the
\* vertices within d hops of the source
RECURSIVE HopsFrom(_, _, _)
HopsFrom(S, t, d) ==
    IF t \in S THEN d
    ELSE LET T == S \cup {v \in Vertices : \E u \in S : Adjacent(u, v)}
         IN  IF T = S THEN Inf ELSE HopsFrom(T, t, d + 1)

HopDistance(s, t) == HopsFrom({s}, t, 0)

\* the entry of the weight matrix for u and v: the weight of the edge listed
\* last among those that join u and v, +infinity when none does
MatrixEntry(u, v) ==
    LET J == {j \in DOMAIN graph_data.edges :
                 {graph_data.edges[j][1], graph_data.edges[j][2]} = {u, v}}
    IN  IF J = {} THEN Inf ELSE EdgeWeight(graph_data.edges[SetMax(J)])

\* the sum of the weight-matrix entries of the consecutive pairs of a tour
RECURSIVE TourWeight(_)
TourWeight(tour) ==
    IF Len(tour) <= 1 THEN 0
    ELSE Plus(MatrixEntry(tour[1], tour[2]), TourWeight(Tail(tour)))

\* the place of a vertex in the vertex list
ListIndex(v) == CHOOSE i \in DOMAIN graph_data.vertices : graph_data.vertices[i] = v

\* no vertex twice in a sequence
Injective(s) == \A i, j \in DOMAIN s : s[i] = s[j] => i = j

\* a call of the algorithm called name has returned or raised
Done(name) == pc = "done" /\ algorithm_name = name

---------------------------------------------------------------------------
(* Claims *)

\* C1: on a connected graph with non-negative weights run_dijkstra returns,
\* for every vertex v, distances[v] equal to the true shortest-path weight
\* from the reported start to v, and the parent pointers from v lead back to
\* start (whose parent is -1) along graph edges whose weights sum to
\* distances[v].
C1_DijkstraShortestPaths ==
    (Done("dijkstra") /\ WellFormed /\ GraphConnected /\ NonNegativeWeights) =>
        /\ DOMAIN result = {"algorithm", "distances", "parent", "start", "success"}
        /\ result.start \in Vertices
        /\ \A v \in Vertices :
               /\ result.distances[Str(v)] = ShortestWeight(result.start, v)
               /\ result.distances[Str(v)]
                      \in ParentPathWeights(v, Cardinality(Vertices))

\* a connected graph on which the shortest path to a neighbour v of start
\* goes through a third vertex
C1_Witness ==
    /\ Done("dijkstra") /\ WellFormed /\ GraphConnected /\ NonNegativeWeights
    /\ "parent" \in DOMAIN result
    /\ \E v \in Vertices :
           /\ Adjacent(result.start, v)
           /\ result.parent[Str(v)] \notin {NoVertex, result.start}

\* C2 as stated: on a connected graph run_mst returns num_edges = |vertices| - 1,
\* is_connected = true and a total_weight equal to the weight of a minimum
\* spanning tree.
C2_AsStated ==
    (Done("mst") /\ WellFormed /\ GraphConnected) =>
        /\ "total_weight" \in DOMAIN result
        /\ result.num_edges = Cardinality(Vertices) - 1
        /\ result.is_connected = TRUE
        /\ result.total_weight = MinSpanningWeight

\* C2 (amended): on a connected graph run_mst returns num_edges =
\* |vertices| - 1, is_connected = true and a total_weight equal to the weight
\* of a minimum spanning tree rounded to two decimal places.
C2_MstMinimalRounded ==
    (Done("mst") /\ WellFormed /\ GraphConnected) =>
        /\ DOMAIN result = {"algorithm", "mst_edges", "total_weight", "num_edges",
                            "is_connected", "success"}
        /\ result.num_edges = Cardinality(Vertices) - 1
        /\ result.is_connected = TRUE
        /\ result.total_weight = Round2(MinSpanningWeight)

\* a connected graph with a cycle, of which Kruskal rejects an edge, and whose
\* minimum spanning tree has a weight that is no multiple of 0.01
C2_Witness ==
    /\ Done("mst") /\ WellFormed /\ GraphConnected
    /\ "total_weight" \in DOMAIN result
    /\ Cardinality(Vertices) = 3
    /\ Cardinality(SpanningTrees) >= 3
    /\ result.total_weight # MinSpanningWeight

\* C3: on a disconnected graph with components of sizes s1, s2, ... run_mst
\* returns exactly sum(si - 1) edges and is_connected = false; on every
\* non-empty graph is_connected is true iff the graph is connected.
C3_MstForest ==
    (Done("mst") /\ WellFormed /\ NonEmptyGraph) =>
        /\ DOMAIN result = {"algorithm", "mst_edges", "total_weight", "num_edges",
                            "is_connected", "success"}
        /\ result.is_connected = GraphConnected
        /\ ~GraphConnected =>
               /\ result.num_edges = SumSizesLessOne(ReferenceComponents)
               /\ Len(result.mst_edges) = result.num_edges
               /\ result.is_connected = FALSE

\* a disconnected graph with a component of two vertices joined by parallel
\* edges: a spanning forest of one edge
C3_Witness ==
    /\ Done("mst") /\ WellFormed /\ NonEmptyGraph /\ ~GraphConnected
    /\ "num_edges" \in DOMAIN result
    /\ result.num_edges = 1
    /\ \E u, v \in Vertices : u # v /\ Cardinality(EdgeWeightsBetween(u, v)) >= 2

\* C4: on a non-empty graph whose edges join distinct vertices run_coloring
\* returns a proper colouring; chromatic_number is max(coloring values) + 1
\* and the number of distinct colours used; colors_used is
\* 0 .. chromatic_number - 1, each assigned to at least one vertex.
C4_ColoringProper ==
    (Done("coloring") /\ WellFormed /\ NonEmptyGraph /\ NoSelfLoops) =>
        /\ DOMAIN result = {"algorithm", "coloring", "chromatic_number",
                            "colors_used", "success"}
        /\ DOMAIN result.coloring = Vertices
        /\ \A i \in DOMAIN graph_data.edges :
               result.coloring[graph_data.edges[i][1]]
                   # result.coloring[graph_data.edges[i][2]]
        /\ result.chromatic_number = SetMax(Range(result.coloring)) + 1
        /\ result.chromatic_number = Cardinality(Range(result.coloring))
        /\ Len(result.colors_used) = result.chromatic_number
        /\ \A i \in DOMAIN result.colors_used :
               /\ result.colors_used[i] = i - 1
               /\ \E v \in Vertices : result.coloring[v] = result.colors_used[i]

\* a triangle, which takes three colours
C4_Witness ==
    /\ Done("coloring") /\ WellFormed /\ NonEmptyGraph /\ NoSelfLoops
    /\ "chromatic_number" \in DOMAIN result
    /\ result.chromatic_number = 3

\* C5: on a non-empty graph the components of run_connectivity are a
\* partition of the vertex set, two vertices are in the same component iff a
\* path joins them, every component is sorted ascending, num_components is the
\* number of components and is_connected is true iff there is exactly one.
C5_ConnectivityPartition ==
    (Done("connectivity") /\ WellFormed /\ NonEmptyGraph) =>
        /\ DOMAIN result = {"algorithm", "components", "num_components",
                            "is_connected", "largest_component_size", "success"}
        /\ \A v \in Vertices :
               Cardinality({ij \in {<<i, j>> : i \in DOMAIN result.components,
                                               j \in 1 .. Cardinality(Vertices)} :
                               /\ ij[2] <= Len(result.components[ij[1]])
                               /\ result.components[ij[1]][ij[2]] = v}) = 1
        /\ \A i \in DOMAIN result.components :
               /\ Range(result.components[i]) \in ReferenceComponents
               /\ \A j \in 1 .. (Len(result.components[i]) - 1) :
                      result.components[i][j] < result.components[i][j + 1]
        /\ {Range(result.components[i]) : i \in DOMAIN result.components}
               = ReferenceComponents
        /\ result.num_components = Len(result.components)
        /\ result.num_components = Cardinality(ReferenceComponents)
        /\ result.is_connected = (Len(result.components) = 1)

\* two components, the first one discovered from a vertex that is not its
\* smallest
C5_Witness ==
    /\ Done("connectivity") /\ WellFormed /\ NonEmptyGraph
    /\ "components" \in DOMAIN result
    /\ Len(result.components) = 2
    /\ Len(result.components[1]) = 2
    /\ graph_data.vertices[1] # result.components[1][1]

\* C6: on a non-empty graph run_hotel_optimization assigns every vertex to a
\* chosen center at least as near (in hops) as every other chosen center, the
\* earliest such center of the centers sequence, and max_distance is the
\* maximum over the vertices of the distance to the assigned center (+infinity
\* when a vertex is joined to no center).
C6_HotelNearestCenter ==
    (Done("hotel") /\ WellFormed /\ NonEmptyGraph) =>
        /\ DOMAIN result = {"algorithm", "centers", "num_centers", "assignment",
                            "max_distance", "success"}
        /\ DOMAIN result.assignment = Vertices
        /\ \A v \in Vertices :
               \E i \in DOMAIN result.centers :
                   /\ result.assignment[v] = result.centers[i]
                   /\ \A j \in DOMAIN result.centers :
                          /\ HopDistance(v, result.centers[i])
                                 <= HopDistance(v, result.centers[j])
                          /\ HopDistance(v, result.centers[i])
                                 = HopDistance(v, result.centers[j]) => i <= j
        /\ result.max_distance
               = SetMax({HopDistance(v, result.assignment[v]) : v \in Vertices})
        /\ (\E v \in Vertices : \A c \in Range(result.centers) :
                HopDistance(v, c) = Inf) => result.max_distance = Inf

\* a vertex one hop away from each of two centers, assigned to the first
C6_Witness ==
    /\ Done("hotel") /\ WellFormed /\ NonEmptyGraph
    /\ "centers" \in DOMAIN result
    /\ Len(result.centers) = 2
    /\ \E v \in Vertices :
           /\ HopDistance(v, result.centers[1]) = 1
           /\ HopDistance(v, result.centers[2]) = 1
           /\ result.assignment[v] = result.centers[1]

\* C7: run_algorithm with tsp, mst, connectivity, coloring or hotel on a graph
\* with zero vertices, whatever its edge list, returns exactly
\* {error: "Empty graph", success: false} and does not raise.
C7_EmptyGraphError ==
    (pc = "done" /\ graph_data.vertices = <<>>
         /\ algorithm_name \in {"tsp", "mst", "connectivity", "coloring", "hotel"}) =>
        /\ DOMAIN result = {"error", "success"}
        /\ result.error = "Empty graph"
        /\ result.success = FALSE

\* hotel called on no vertices and a non-empty edge list
C7_Witness ==
    /\ Done("hotel")
    /\ graph_data.vertices = <<>>
    /\ graph_data.edges # <<>>
    /\ "error" \in DOMAIN result

\* C8: run_algorithm("dijkstra", graph) on a graph with zero vertices defaults
\* start to 0 and returns success: true with empty distances and parent maps,
\* without raising.
C8_AsStated ==
    (Done("dijkstra") /\ graph_data.vertices = <<>> /\ graph_data.edges = <<>>) =>
        /\ DOMAIN result = {"algorithm", "distances", "parent", "start", "success"}
        /\ result.success = TRUE
        /\ result.start = 0
        /\ DOMAIN result.distances = {}
        /\ DOMAIN result.parent = {}

\* C9: for every name that is none of the six and every graph, well-formed or
\* not, run_algorithm returns a result that carries only
\* error = "Unknown algorithm: <name>" (no success field), does not raise and
\* leaves the graph as it was.
C9_UnknownAlgorithm ==
    [][(pc' = "done" /\ algorithm_name' \notin AlgorithmNames) =>
           /\ DOMAIN result' = {"error"}
           /\ result'.error = "Unknown algorithm: " \o algorithm_name'
           /\ graph_data' = graph_data]_vars

\* an unknown name called on a graph whose edges name missing vertices
C9_Witness ==
    /\ Done("prim")
    /\ ~WellFormed
    /\ NonEmptyGraph
    /\ "error" \in DOMAIN result

\* C10 as stated: every result returned by run_algorithm includes an
\* algorithm name string and either success: true or an error string.
C10_AsStated ==
    (pc = "done" /\ "raised" \notin DOMAIN result) =>
        /\ "algorithm" \in DOMAIN result
        /\ \/ ("success" \in DOMAIN result /\ result.success = TRUE)
           \/ "error" \in DOMAIN result

\* the value of the algorithm field of a success result
AlgorithmTitles ==
    [dijkstra |-> "Dijkstra", tsp |-> "TSP (Nearest Neighbor)",
     mst |-> "MST (Kruskal)", connectivity |-> "Connectivity (DFS)",
     coloring |-> "Graph Coloring (Greedy)",
     hotel |-> "Hotel Optimization (K-Centers)"]

\* C10 (amended): every result returned by run_algorithm is either a success
\* result, which includes the algorithm name string and success: true and no
\* error, or an error result, which includes an error string and no algorithm
\* name: the unknown-algorithm result and the empty-graph result.
C10_ResultShape ==
    (pc = "done" /\ "raised" \notin DOMAIN result) =>
        IF algorithm_name \in AlgorithmNames
              /\ (NonEmptyGraph \/ algorithm_name = "dijkstra")
        THEN /\ {"algorithm", "success"} \subseteq DOMAIN result
             /\ "error" \notin DOMAIN result
             /\ result.algorithm = AlgorithmTitles[algorithm_name]
             /\ result.success = TRUE
        ELSE /\ "error" \in DOMAIN result
             /\ "algorithm" \notin DOMAIN result
             /\ result.error \in {"Empty graph",
                                  "Unknown algorithm: " \o algorithm_name}

\* an empty-graph error result of a known algorithm
C10_Witness ==
    /\ Done("coloring")
    /\ graph_data.vertices = <<>>
    /\ "error" \in DOMAIN result
    /\ "algorithm" \notin DOMAIN result

SuppliedStarts == -1 .. MaxV

\* C12 as stated: for every non-empty vertex list, in any order, the source
\* run_dijkstra reports as start is the first vertex of the vertex list
\* whenever no start is supplied (as run_algorithm does) or the supplied start
\* is not in the vertex list.
C12_AsStated ==
    (Done("dijkstra") /\ NonEmptyGraph /\ WellFormed) =>
        /\ "start" \in DOMAIN result
        /\ result.start = graph_data.vertices[1]
        /\ \A s \in SuppliedStarts \ Vertices :
               run_dijkstra(graph_data, s).start = graph_data.vertices[1]

\* C13: on a non-empty graph with non-negative weights run_dijkstra returns
\* success: true and, for every vertex v: if v is unreachable from start then
\* distances[v] is +infinity and parent[v] is -1; parent[start] is -1 and
\* distances[start] is 0; if v is reachable and is not start then distances[v]
\* is finite and parent[v] is a neighbour of v.  Unreachable vertices give no
\* error result.
C13_DijkstraUnreachable ==
    (Done("dijkstra") /\ WellFormed /\ NonEmptyGraph /\ NonNegativeWeights) =>
        /\ DOMAIN result = {"algorithm", "distances", "parent", "start", "success"}
        /\ result.success = TRUE
        /\ result.start \in Vertices
        /\ DOMAIN result.distances = {Str(v) : v \in Vertices}
        /\ DOMAIN result.parent = {Str(v) : v \in Vertices}
        /\ result.parent[Str(result.start)] = NoVertex
        /\ result.distances[Str(result.start)] = 0
        /\ \A v \in Vertices \ ReachableFrom({result.start}) :
               /\ result.distances[Str(v)] = Inf
               /\ result.parent[Str(v)] = NoVertex
        /\ \A v \in ReachableFrom({result.start}) \ {result.start} :
               /\ result.distances[Str(v)] < Inf
               /\ result.parent[Str(v)] \in Vertices
               /\ Adjacent(result.parent[Str(v)], v)

\* a graph with a vertex that start reaches and a vertex that it does not
C13_Witness ==
    /\ Done("dijkstra") /\ WellFormed /\ NonEmptyGraph /\ NonNegativeWeights
    /\ "distances" \in DOMAIN result
    /\ \E u, v \in Vertices :
           /\ u # result.start
           /\ result.distances[Str(u)] < Inf
           /\ result.distances[Str(v)] = Inf
           /\ result.parent[Str(v)] = NoVertex

\* the shape of the tour C14 describes: it starts at the first vertex of the
\* vertex list and repeats no vertex before closing; it returns to start if
\* and only if every vertex was reached, and otherwise stops early with no
\* repeated vertex
TourShape ==
    LET tour == result.tour
        n == Len(graph_data.vertices)
    IN  /\ Len(tour) >= 1
        /\ tour[1] = graph_data.vertices[1]
        /\ Range(tour) \subseteq Vertices
        /\ IF Range(tour) = Vertices
           THEN /\ Len(tour) = n + 1
                /\ tour[n + 1] = graph_data.vertices[1]
                /\ Injective(SubSeq(tour, 1, n))
           ELSE /\ Len(tour) < n
                /\ Injective(tour)

\* C14 as stated: the tour has the shape above and, closed or not,
\* total_distance equals the sum of the weight-matrix entries of consecutive
\* tour pairs (the closing edge's weight is in the sum exactly when the tour
\* is closed).
C14_AsStated ==
    (Done("tsp") /\ WellFormed /\ NonEmptyGraph) =>
        /\ "tour" \in DOMAIN result
        /\ TourShape
        /\ result.total_distance = TourWeight(result.tour)

\* C14 (amended): the tour has the shape above and, closed or not,
\* total_distance equals the sum of the weight-matrix entries of consecutive
\* tour pairs rounded to two decimal places.
C14_TspTour ==
    (Done("tsp") /\ WellFormed /\ NonEmptyGraph) =>
        /\ DOMAIN result = {"algorithm", "tour", "total_distance",
                            "vertices_visited", "success"}
        /\ result.success = TRUE
        /\ TourShape
        /\ result.total_distance = Round2(TourWeight(result.tour))

\* a tour that stops early after one step whose weight is no multiple of 0.01
C14_Witness ==
    /\ Done("tsp") /\ WellFormed /\ NonEmptyGraph
    /\ "tour" \in DOMAIN result
    /\ Len(graph_data.vertices) = 3
    /\ Len(result.tour) = 2
    /\ result.total_distance # TourWeight(result.tour)

\* the unvisited vertices adjacent to the current vertex of a run_tsp loop state
UnvisitedNeighbours(st) ==
    {v \in Vertices \ st.visited : Adjacent(st.current, v)}

\* C15: at every step of run_tsp the vertex appended to the tour is an
\* unvisited vertex adjacent to the current vertex whose edge weight from the
\* current vertex is minimal among all unvisited vertices, the first such
\* vertex of the vertex list when several have that weight; the tour stops
\* exactly when no unvisited vertex is adjacent to the current vertex or all
\* vertices are visited.
C15_NearestNeighbour ==
    [][pc = "tsp_loop" =>
           LET st == locals.st
               unvisited == Vertices \ st.visited
               near == UnvisitedNeighbours(st)
           IN  /\ pc' = "tsp_loop" =>
                      IF near = {}
                      THEN /\ unvisited # {}
                           /\ locals'.st.tour = st.tour
                           /\ locals'.st.stopped
                      ELSE \E v \in near :
                               /\ locals'.st.tour = Append(st.tour, v)
                               /\ locals'.st.current = v
                               /\ locals'.st.visited = st.visited \cup {v}
                               /\ ~locals'.st.stopped
                               /\ \A u \in unvisited :
                                      /\ MatrixEntry(st.current, v)
                                             <= MatrixEntry(st.current, u)
                                      /\ MatrixEntry(st.current, v)
                                             = MatrixEntry(st.current, u)
                                             => ListIndex(v) <= ListIndex(u)
               /\ pc' = "done" =>
                      /\ near = {} \/ unvisited = {}
                      /\ SubSeq(result'.tour, 1, Len(st.tour)) = st.tour]_vars

\* the loop has appended a vertex that another unvisited vertex, later in the
\* vertex list, equals in weight from the start vertex
C15_Witness ==
    /\ pc = "tsp_loop"
    /\ Len(locals.st.tour) = 2
    /\ \E u \in Vertices \ locals.st.visited :
           /\ Adjacent(locals.st.tour[1], u)
           /\ MatrixEntry(locals.st.tour[1], u)
                  = MatrixEntry(locals.st.tour[1], locals.st.tour[2])
           /\ ListIndex(locals.st.tour[2]) < ListIndex(u)
           /\ u < locals.st.tour[2]

\* the representative of the union-find set of x: the end of the chain of
\* parent pointers from x
RECURSIVE Root(_, _)
Root(parent, x) == IF parent[x] = x THEN x ELSE Root(parent, parent[x])

\* a sequence of (weight, u, v) tuples in ascending lexicographic order
Ascending(keys) ==
    \A j \in 1 .. (Len(keys) - 1) : ~TupleLess(keys[j + 1], keys[j])

\* sorted_edges holds the (weight, v1, v2) tuple of every edge, each as often
\* as the edge list does, in ascending order
SortedEdgesOfGraph(sorted_edges) ==
    /\ Len(sorted_edges) = Len(graph_data.edges)
    /\ \A k \in Range(sorted_edges) \cup {SortKey(graph_data.edges[j]) :
                                               j \in DOMAIN graph_data.edges} :
           Cardinality({j \in DOMAIN sorted_edges : sorted_edges[j] = k})
               = Cardinality({j \in DOMAIN graph_data.edges :
                                SortKey(graph_data.edges[j]) = k})
    /\ Ascending(sorted_edges)

\* one step of run_mst as C16 describes it: the loop takes the edges in the
\* ascending order of (weight, u, v), one after the other, and accepts the
\* edge it takes exactly when its endpoints are in different union-find sets
KruskalStepAsDescribed ==
    (pc = "mst_loop" /\ WellFormed) =>
        /\ SortedEdgesOfGraph(locals.sorted_edges)
        /\ pc' = "mst_loop" =>
               LET e == locals.sorted_edges[locals.i]
                   apart == Root(locals.st.parent, e[2]) # Root(locals.st.parent, e[3])
               IN  /\ locals'.i = locals.i + 1
                   /\ locals'.sorted_edges = locals.sorted_edges
                   /\ locals'.st.mst_edges =
                          IF apart
                          THEN Append(locals.st.mst_edges, <<e[2], e[3], e[1]>>)
                          ELSE locals.st.mst_edges
        /\ pc' = "done" =>
               /\ locals.i = Len(locals.sorted_edges) + 1
               /\ result'.mst_edges = locals.st.mst_edges

\* the mst_edges of a result as C16 describes them: in the sorted order, with
\* no self-loop and at most one edge of any group of parallel edges
MstEdgesAsDescribed(mst_edges) ==
    /\ Ascending([j \in DOMAIN mst_edges |->
                     <<mst_edges[j][3], mst_edges[j][1], mst_edges[j][2]>>])
    /\ \A j \in 1 .. (Len(mst_edges) - 1) : mst_edges[j][3] <= mst_edges[j + 1][3]
    /\ \A j \in DOMAIN mst_edges : mst_edges[j][1] # mst_edges[j][2]
    /\ \A j, k \in DOMAIN mst_edges :
           {mst_edges[j][1], mst_edges[j][2]} = {mst_edges[k][1], mst_edges[k][2]}
               => j = k

\* the sum of the weights of a list of (u, v, weight) edges
RECURSIVE SumEdgeWeights(_)
SumEdgeWeights(mst_edges) ==
    IF mst_edges = <<>> THEN 0
    ELSE mst_edges[1][3] + SumEdgeWeights(Tail(mst_edges))

\* C16 as stated: run_mst considers edges in ascending lexicographic order of
\* (weight, u, v) and accepts an edge exactly when its endpoints are in
\* different union-find sets at that moment; mst_edges is listed in that
\* sorted order, contains no self-loop and at most one edge of any group of
\* parallel edges, and total_weight is the sum of the weights of the accepted
\* edges.
C16_AsStated ==
    [][/\ KruskalStepAsDescribed
       /\ (pc' = "done" /\ WellFormed /\ NonEmptyGraph) =>
              /\ MstEdgesAsDescribed(result'.mst_edges)
              /\ result'.total_weight = SumEdgeWeights(result'.mst_edges)]_vars

\* C16 (amended): as C16, with total_weight the sum of the weights of the
\* accepted edges rounded to two decimal places.
C16_KruskalOrder ==
    [][/\ KruskalStepAsDescribed
       /\ (pc' = "done" /\ WellFormed /\ NonEmptyGraph) =>
              /\ MstEdgesAsDescribed(result'.mst_edges)
              /\ result'.total_weight
                     = Round2(SumEdgeWeights(result'.mst_edges))]_vars

\* the loop has taken the three edges of a triangle, listed out of order, and
\* has accepted the first two of the sorted order
C16_Witness ==
    /\ pc = "mst_loop" /\ WellFormed /\ NoSelfLoops
    /\ locals.i = 4
    /\ Len(locals.st.mst_edges) = 2
    /\ locals.sorted_edges # SortedEdgesUnsorted(graph_data.edges)
    /\ \A j, k \in DOMAIN graph_data.edges :
           {graph_data.edges[j][1], graph_data.edges[j][2]}
               = {graph_data.edges[k][1], graph_data.edges[k][2]} => j = k
    /\ locals.st.total_weight # Round2(locals.st.total_weight)

\* the graph with the weight of every edge changed: an edge given as a pair
\* gets the weight 0.004, an edge given as a triple loses its weight
Reweighted(graph) ==
    [graph EXCEPT !.edges =
        [i \in DOMAIN @ |-> IF Len(@[i]) = 3 THEN <<@[i][1], @[i][2]>>
                             ELSE <<@[i][1], @[i][2], 4>>]]

\* the least number of hops from v to a center among the first j - 1 centers
HopsToCenters(v, centers, j) ==
    SetMin({HopDistance(v, centers[i]) : i \in 1 .. (j - 1)})

\* C17: on a non-empty graph with N distinct vertices run_hotel_optimization
\* uses k = max(1, floor(N / 3) + 1); the first center is the first vertex of
\* the vertex list; every later center is, at the time it is added, a
\* non-center vertex whose least BFS distance to the centers chosen before it
\* is largest (+infinity being the largest), the first such vertex of the
\* vertex list on ties; the centers are pairwise distinct, num_centers is
\* min(k, N), and the result does not depend on edge weights.
C17_HotelCenters ==
    (Done("hotel") /\ WellFormed /\ NonEmptyGraph) =>
        LET n == Len(graph_data.vertices)
            k == IF (n \div 3) + 1 >= 1 THEN (n \div 3) + 1 ELSE 1
            centers == result.centers
        IN  /\ "centers" \in DOMAIN result
            /\ result.num_centers = (IF k < n THEN k ELSE n)
            /\ Len(centers) = result.num_centers
            /\ centers[1] = graph_data.vertices[1]
            /\ Injective(centers)
            /\ \A j \in 2 .. Len(centers) :
                   LET before == {centers[i] : i \in 1 .. (j - 1)}
                       far == HopsToCenters(centers[j], centers, j)
                   IN  /\ centers[j] \in Vertices \ before
                       /\ \A u \in Vertices \ before :
                              /\ HopsToCenters(u, centers, j) <= far
                              /\ HopsToCenters(u, centers, j) = far
                                     => ListIndex(centers[j]) <= ListIndex(u)
            /\ result = run_hotel_optimization(Reweighted(graph_data))

\* three centers, the third of which is not the vertex farthest from the
\* first center alone, and has an equal that comes later in the vertex list
C17_Witness ==
    /\ Done("hotel") /\ WellFormed /\ NonEmptyGraph
    /\ "centers" \in DOMAIN result
    /\ Len(result.centers) = 3
    /\ \E u \in Vertices \ Range(result.centers) :
           /\ HopDistance(u, result.centers[1])
                  > HopDistance(result.centers[3], result.centers[1])
           /\ HopDistance(u, result.centers[1]) < Inf
    /\ \E u \in Vertices \ Range(result.centers) :
           /\ HopsToCenters(u, result.centers, 3)
                  = HopsToCenters(result.centers[3], result.centers, 3)
           /\ ListIndex(result.centers[3]) < ListIndex(u)
           /\ u < result.centers[3]

\* the j-th edge is the lightest of its group of parallel edges, the first of
\* the list among the lightest
LightestOfGroup(edges, j) ==
    \A k \in DOMAIN edges :
        ({edges[k][1], edges[k][2]} = {edges[j][1], edges[j][2]} /\ k # j) =>
            \/ EdgeWeight(edges[j]) < EdgeWeight(edges[k])
            \/ EdgeWeight(edges[j]) = EdgeWeight(edges[k]) /\ j < k

\* the edges from the i-th on that are the lightest of their group
RECURSIVE LightestFrom(_, _)
LightestFrom(edges, i) ==
    IF i > Len(edges) THEN <<>>
    ELSE (IF LightestOfGroup(edges, i) THEN <<edges[i]>> ELSE <<>>)
             \o LightestFrom(edges, i + 1)

\* the graph that keeps only the lightest edge of each group of parallel edges
LightestOnly(graph) == [graph EXCEPT !.edges = LightestFrom(@, 1)]

HasParallelEdges ==
    \E j, k \in DOMAIN graph_data.edges :
        /\ j # k
        /\ {graph_data.edges[j][1], graph_data.edges[j][2]}
               = {graph_data.edges[k][1], graph_data.edges[k][2]}

\* C18 as stated: on every graph with several edges between the same pair of
\* vertices, in whatever order they are listed, the distances of run_dijkstra,
\* the total_weight and num_edges of run_mst and the tour and total_distance
\* of run_tsp equal those on the graph that keeps only the lightest edge of
\* each parallel group.
C18_AsStated ==
    (pc = "done" /\ WellFormed /\ NonEmptyGraph /\ HasParallelEdges) =>
        LET light == run_algorithm(algorithm_name, LightestOnly(graph_data))
        IN  /\ algorithm_name = "dijkstra" => result.distances = light.distances
            /\ algorithm_name = "mst" =>
                   /\ result.total_weight = light.total_weight
                   /\ result.num_edges = light.num_edges
            /\ algorithm_name = "tsp" =>
                   /\ result.tour = light.tour
                   /\ result.total_distance = light.total_distance

\* C19 as stated: every one of the six algorithms terminates and returns a
\* result on every finite graph whose edge endpoints are in the vertex list,
\* disconnected graphs and graphs with parallel edges or self-loops included:
\* no call ends by raising instead of returning.
C19_AsStated ==
    (pc = "done" /\ algorithm_name \in AlgorithmNames /\ WellFormed) =>
        /\ "raised" \notin DOMAIN result
        /\ "success" \in DOMAIN result

\* C20 as stated: whenever run_tsp returns a closed tour (its last element is
\* start again), every consecutive pair of vertices of the tour, the closing
\* pair included, is joined by an edge of the graph, so total_distance is
\* finite; a one-vertex graph yields total_distance 0.
C20_AsStated ==
    (Done("tsp") /\ WellFormed /\ NonEmptyGraph /\ "tour" \in DOMAIN result) =>
        LET tour == result.tour
            n == Len(graph_data.vertices)
        IN  (Len(tour) = n + 1 /\ tour[Len(tour)] = tour[1]) =>
                /\ result.total_distance < Inf
                /\ n > 1 => \A i \in 1 .. (Len(tour) - 1) :
                                Adjacent(tour[i], tour[i + 1])
                /\ n = 1 => result.total_distance = 0

\* C21 as stated: on every non-empty graph the vertices_visited field that
\* run_tsp returns equals the number of distinct vertices in the returned
\* tour, when the tour is complete and closed and when it stopped early.
C21_AsStated ==
    (Done("tsp") /\ WellFormed /\ NonEmptyGraph) =>
        /\ "vertices_visited" \in DOMAIN result
        /\ result.vertices_visited = Cardinality(Range(result.tour))

\* the end of the chain of parent pointers from x if it is reached within
\* fuel hops, -1 if it is not
RECURSIVE RootWithin(_, _, _)
RootWithin(parent, x, fuel) ==
    IF parent[x] = x THEN x
    ELSE IF fuel = 0 \/ parent[x] \notin DOMAIN parent THEN NoVertex
    ELSE RootWithin(parent, parent[x], fuel - 1)

\* the parent map is a forest: every chain of parent pointers ends in a vertex
\* that is its own parent
ParentForest(parent) ==
    /\ DOMAIN parent = Vertices
    /\ \A x \in Vertices :
           RootWithin(parent, x, Cardinality(Vertices)) # NoVertex

\* the sets of the union-find: the vertices that share a root
SameSets(parent) ==
    {{y \in Vertices : Root(parent, y) = Root(parent, x)} : x \in Vertices}

\* the vertices joined to a vertex of S by a path of accepted edges
RECURSIVE JoinedBy(_, _)
JoinedBy(mst_edges, S) ==
    LET N == S \cup {v \in Vertices :
                        \E i \in DOMAIN mst_edges : \E u \in S :
                            {mst_edges[i][1], mst_edges[i][2]} = {u, v}}
    IN  IF N = S THEN S ELSE JoinedBy(mst_edges, N)

\* C22: in run_mst, after any sequence of union(x, y) calls, the parent map is
\* a forest whose only cycles are the roots pointing to themselves; find(x)
\* equals find(y) iff x and y are joined through the edges accepted so far;
\* the accepted edges form an acyclic forest; find, with its path compression,
\* never changes which vertices share a set; and union returns False exactly
\* when the two vertices are in the same set already.
C22_UnionFindInvariant ==
    pc = "mst_loop" =>
        LET parent == locals.st.parent
            accepted == locals.st.mst_edges
        IN  /\ ParentForest(parent)
            /\ \A x, y \in Vertices :
                   /\ find(parent, x).root = Root(parent, x)
                   /\ (find(parent, x).root = find(parent, y).root)
                          <=> (y \in JoinedBy(accepted, {x}))
                   /\ union(locals.st, x, y).returned
                          <=> (y \notin JoinedBy(accepted, {x}))
                   /\ ~union(locals.st, x, y).returned
                          => SameSets(union(locals.st, x, y).parent)
                                 = SameSets(parent)
            /\ Len(accepted) = Cardinality(Vertices)
                   - Cardinality({JoinedBy(accepted, {x}) : x \in Vertices})
            /\ \A x \in Vertices :
                   /\ ParentForest(find(parent, x).parent)
                   /\ SameSets(find(parent, x).parent) = SameSets(parent)

\* a parent chain of two hops, which a find shortens, and an edge between two
\* vertices of one set still to come
C22_Witness ==
    /\ pc = "mst_loop"
    /\ locals.i <= Len(locals.sorted_edges)
    /\ \E x \in Vertices :
           /\ locals.st.parent[x] # x
           /\ locals.st.parent[locals.st.parent[x]] # locals.st.parent[x]
           /\ find(locals.st.parent, x).parent # locals.st.parent
           /\ x \in {locals.sorted_edges[locals.i][2],
                      locals.sorted_edges[locals.i][3]}
    /\ Root(locals.st.parent, locals.sorted_edges[locals.i][2])
           = Root(locals.st.parent, locals.sorted_edges[locals.i][3])
    /\ locals.sorted_edges[locals.i][2] # locals.sorted_edges[locals.i][3]

====
